---- MODULE Spec2Model ----
(***************************************************************************)
(* A model of one SOCKS5 session of socsk-rs (src/src/lib.rs): the task    *)
(* handle_connection runs for one accepted client connection, with the     *)
(* address parser handle_connection_addr, the dispatcher                   *)
(* handle_connection_down and the two forwarding tasks of a TCP relay.     *)
(*                                                                         *)
(* The client is a finite byte stream, fixed when the connection is        *)
(* accepted and followed by end-of-stream; how the stream is cut into TCP  *)
(* segments is chosen at every read.  Rust Strings are modelled as the     *)
(* sequence of their UTF-8 bytes.                                          *)
(***************************************************************************)
EXTENDS Integers, Sequences, FiniteSets, TLC

(* ------------------------------------------------------------------ *)
(* Program constants                                                    *)
(* ------------------------------------------------------------------ *)
VERSION == 5
ATYP_IPV4 == 1
ATYP_DOMAIN_NAME == 3
ATYP_IPV6 == 4
CMD_CONNECT == 1
CMD_ASSOCIATE == 3
READER_BUFFER_LEN == 256
DomainLenLimit == 8192

(* ------------------------------------------------------------------ *)
(* Bounds of the model                                                  *)
(* ------------------------------------------------------------------ *)
MaxMethods == 2
MaxDomainLen == 2
MaxPayload == 1
MaxRemote == 1

(* A local that has not been assigned yet. *)
Unset == 0 - 1

Min(a, b) == IF a < b THEN a ELSE b

SeqsUpTo(S, n) == UNION { [1..k -> S] : k \in 0..n }

(* ------------------------------------------------------------------ *)
(* String::from_utf8_lossy: valid UTF-8 sequences are kept, every       *)
(* maximal invalid part becomes U+FFFD, whose UTF-8 bytes are EF BF BD. *)
(* ------------------------------------------------------------------ *)
REPLACEMENT == <<239, 191, 189>>

IsCont(b) == b >= 128 /\ b <= 191

(* The range the second byte of a multi-byte sequence must lie in. *)
SecondOk(b0, b1) ==
    CASE b0 = 224 -> b1 >= 160 /\ b1 <= 191
      [] b0 = 237 -> b1 >= 128 /\ b1 <= 159
      [] b0 = 240 -> b1 >= 144 /\ b1 <= 191
      [] b0 = 244 -> b1 >= 128 /\ b1 <= 143
      [] OTHER    -> IsCont(b1)

(* Width of the sequence a first byte announces; 0 for an invalid first byte. *)
Utf8Width(b0) ==
    IF b0 < 128 THEN 1
    ELSE IF b0 >= 194 /\ b0 <= 223 THEN 2
    ELSE IF b0 >= 224 /\ b0 <= 239 THEN 3
    ELSE IF b0 >= 240 /\ b0 <= 244 THEN 4
    ELSE 0

RECURSIVE LossyFrom(_, _)
LossyFrom(s, i) ==
    IF i > Len(s) THEN <<>>
    ELSE LET w == Utf8Width(s[i]) IN
         IF w = 1 THEN <<s[i]>> \o LossyFrom(s, i + 1)
         ELSE IF w = 0 THEN REPLACEMENT \o LossyFrom(s, i + 1)
         ELSE IF i + 1 > Len(s) \/ ~SecondOk(s[i], s[i + 1])
              THEN REPLACEMENT \o LossyFrom(s, i + 1)
         ELSE IF w = 2 THEN <<s[i], s[i + 1]>> \o LossyFrom(s, i + 2)
         ELSE IF i + 2 > Len(s) \/ ~IsCont(s[i + 2])
              THEN REPLACEMENT \o LossyFrom(s, i + 2)
         ELSE IF w = 3 THEN <<s[i], s[i + 1], s[i + 2]>> \o LossyFrom(s, i + 3)
         ELSE IF i + 3 > Len(s) \/ ~IsCont(s[i + 3])
              THEN REPLACEMENT \o LossyFrom(s, i + 3)
         ELSE <<s[i], s[i + 1], s[i + 2], s[i + 3]>> \o LossyFrom(s, i + 4)

(* The index of the last byte that is not ASCII, 0 if there is none. *)
LastNonAscii(s) ==
    LET I == { i \in 1..Len(s) : s[i] >= 128 }
    IN IF I = {} THEN 0 ELSE CHOOSE i \in I : \A j \in I : j <= i

(* ASCII bytes stand for themselves wherever they are, so the run of them *)
(* that ends the input is copied as it is.                                *)
from_utf8_lossy(s) ==
    LET n == LastNonAscii(s)
    IN LossyFrom(SubSeq(s, 1, n), 1) \o SubSeq(s, n + 1, Len(s))

(* ------------------------------------------------------------------ *)
(* The scratch buffer [0u8; READER_BUFFER_LEN], kept as the sequence of   *)
(* the bytes up to the last one ever stored; every byte after them still  *)
(* has its initial value 0.                                               *)
(* ------------------------------------------------------------------ *)
EmptyBuffer == <<>>

(* The byte at (0-based) index i. *)
BufferAt(buf, i) == IF i < Len(buf) THEN buf[i + 1] ELSE 0

(* A read stores the bytes it got at the start of the slice and leaves the rest. *)
BufferStore(buf, bytes) ==
    [i \in 1..(IF Len(bytes) > Len(buf) THEN Len(bytes) ELSE Len(buf)) |->
        IF i <= Len(bytes) THEN bytes[i] ELSE buf[i]]

(* &reader_buffer[..n] *)
BufferSlice(buf, n) == [i \in 1..n |-> BufferAt(buf, i - 1)]

(* Whether the slice [..n] lies within the buffer (an index past it panics). *)
SliceInRange(n) == n <= READER_BUFFER_LEN

(* ------------------------------------------------------------------ *)
(* The byte streams a client may send                                   *)
(* ------------------------------------------------------------------ *)
Methods == {0, 2}
MethodLists == SeqsUpTo(Methods, MaxMethods)

(* version, method-count, methods; one greeting of another protocol version *)
Greetings ==
    { <<VERSION, Len(m)>> \o m : m \in MethodLists } \cup { <<4, 1, 0>> }

Cmds == {CMD_CONNECT, 2, CMD_ASSOCIATE}
Atyps == {ATYP_IPV4, 2, ATYP_DOMAIN_NAME, ATYP_IPV6}

IPv4Addrs == { <<127, 0, 0, 1>>, <<200, 97, 2, 3>> }
(* 2001:db8::1 *)
IPv6Addrs == { <<32, 1, 13, 184, 0, 0, 0, 0, 0, 0, 0, 0, 0, 0, 0, 1>> }
(* host text: 'a' and a byte that is not valid UTF-8 *)
DomainBytes == {97, 200}
Domains == SeqsUpTo(DomainBytes, MaxDomainLen)
Ports == { <<0, 80>> }

AddrEncodings(a) ==
    CASE a = ATYP_IPV4        -> IPv4Addrs
      [] a = ATYP_DOMAIN_NAME -> { <<Len(d)>> \o d : d \in Domains }
      [] a = ATYP_IPV6        -> IPv6Addrs
      [] OTHER                -> { <<127, 0, 0, 1>> }

(* version, command, reserved, address type, address, port *)
Requests ==
    UNION { { <<VERSION, t[1], 0, t[2]>> \o u[1] \o u[2] :
                u \in AddrEncodings(t[2]) \X Ports } : t \in Cmds \X Atyps }
    \cup { <<4, CMD_CONNECT, 0, ATYP_IPV4, 127, 0, 0, 1, 0, 80>> }

Payloads == SeqsUpTo({7}, MaxPayload)

FullStreams == { t[1] \o t[2] \o t[3] : t \in Greetings \X Requests \X Payloads }

(* The client may stop sending (and close) after any byte. *)
Streams == UNION { { SubSeq(s, 1, k) : k \in 0..Len(s) } : s \in FullStreams }

(* Every value a u8 read can return. *)
Bytes == 0..255

(* Greetings with every method count, and domain requests with every    *)
(* length byte, cut short after the count and after one more byte.      *)
MethodCountStreams == { <<VERSION, n>> \o t : n \in Bytes, t \in {<<>>, <<0>>} }
DomainLenStreams ==
    { <<VERSION, 0, VERSION, CMD_CONNECT, 0, ATYP_DOMAIN_NAME, n>> \o t :
        n \in Bytes, t \in {<<>>, <<97>>} }
ByteStreams == Streams \cup MethodCountStreams \cup DomainLenStreams

(* What the remote peer sends, byte by byte. *)
RemoteBytes == {9}

(* Outcomes of TcpStream::connect. *)
ConnectErrors == {"ConnectionRefused", "HostUnreachable", "TimedOut", "Other"}

(* ------------------------------------------------------------------ *)
(* State                                                                *)
(* ------------------------------------------------------------------ *)
VARIABLES
    client_stream,      \* all bytes the client sends on its connection
    pos,                \* how many of them have been read from the socket
    pc,                 \* the line handle_connection is at; "done" once it returned
    result,             \* "pending", then "Ok" or the kind of the Error returned
    reader_buffer,      \* lib.rs:78
    ver,                \* lib.rs:80
    n_method,           \* lib.rs:84
    method_len,         \* lib.rs:85
    ver_req,            \* lib.rs:91 (the second `let ver`)
    cmd,                \* lib.rs:95
    rsv,                \* lib.rs:96
    atyp,               \* lib.rs:106
    dst_addr,           \* lib.rs:107, the String as UTF-8 bytes
    dst_addr_len,       \* lib.rs:114
    dst_addr_len_count, \* lib.rs:118
    dst_port,           \* lib.rs:140
    n_read,             \* what the last read() whose result is discarded returned
    written,            \* the writes made on client_writer, in order
    connect_arg,        \* the (host, port) handed to TcpStream::connect
    outbound,           \* the outbound TCP connection: "none", "open", "failed", "closed"
    udp_socket,         \* the UDP socket: "none", "bound", "failed", "closed"
    client_conn,        \* the client connection: "open" or "closed"
    client_rd,          \* client_reader (OwnedReadHalf): "open" or "dropped"
    client_wr,          \* client_writer (OwnedWriteHalf): "open" or "shutdown"
    remote_rd,          \* remote_reader: "none", "open" or "dropped"
    remote_wr,          \* remote_writer: "none", "open" or "shutdown"
    task_upstream,      \* "none", "running", "Ok", "Err"
    task_downstream,    \* "none", "running", "Ok", "Err"
    up_fwd,             \* the bytes task_upstream wrote to the remote
    down_cnt,           \* how many remote bytes task_downstream wrote to the client
    listener,           \* server_socket in Server::handle: "accepting" or "closed"
    handle_result,      \* what Server::handle returned: "pending", then "Ok" or "Err"
    others,             \* the other spawned sessions: "running", "Ok", "Err", "cancelled"
    runtime             \* the tokio runtime of main: "running" or "shutdown"

locals == <<ver, n_method, method_len, ver_req, cmd, rsv, atyp, dst_addr,
            dst_addr_len, dst_addr_len_count, dst_port>>
relay == <<task_upstream, task_downstream, up_fwd, down_cnt>>
net == <<connect_arg, outbound, udp_socket, remote_rd, remote_wr>>
client_halves == <<client_rd, client_wr>>
server == <<listener, handle_result, others, runtime>>
vars == <<client_stream, pos, pc, result, reader_buffer, locals, n_read, written,
          net, client_conn, client_halves, relay, server>>

(* The state of a session task when it starts, whatever the client sends. *)
Fresh ==
    /\ pos = 0
    /\ pc = "L80"
    /\ result = "pending"
    /\ reader_buffer = EmptyBuffer
    /\ ver = Unset /\ n_method = Unset /\ method_len = Unset /\ ver_req = Unset
    /\ cmd = Unset /\ rsv = Unset /\ atyp = Unset
    /\ dst_addr = <<>> /\ dst_addr_len = Unset /\ dst_addr_len_count = Unset
    /\ dst_port = Unset
    /\ n_read = Unset
    /\ written = <<>>
    /\ connect_arg = <<>>
    /\ outbound = "none"
    /\ udp_socket = "none"
    /\ client_conn = "open"
    /\ client_rd = "open" /\ client_wr = "open"
    /\ remote_rd = "none" /\ remote_wr = "none"
    /\ task_upstream = "none" /\ task_downstream = "none"
    /\ up_fwd = <<>> /\ down_cnt = 0

(* Server::handle has bound its socket and is in the accept loop; the    *)
(* session above is the connection it accepted.                         *)
Listening ==
    /\ listener = "accepting"
    /\ handle_result = "pending"
    /\ others = <<>>
    /\ runtime = "running"

Init ==
    /\ client_stream \in Streams
    /\ Fresh
    /\ Listening

(* ------------------------------------------------------------------ *)
(* Reading the client socket                                            *)
(* ------------------------------------------------------------------ *)
Avail == Len(client_stream) - pos

(* The next k bytes of the stream. *)
Taken(k) == SubSeq(client_stream, pos + 1, pos + k)

(* read(&mut buf[..n]): 0 for an empty slice or at end-of-stream, else any  *)
(* count from 1 to n that the segments received so far allow.               *)
ReadCounts(n) == IF n = 0 \/ Avail = 0 THEN {0} ELSE 1..Min(n, Avail)

greet_locals == <<ver, n_method, method_len>>
req_locals == <<ver_req, cmd, rsv>>
addr_locals == <<atyp, dst_addr, dst_addr_len, dst_addr_len_count, dst_port>>

(* A return whose error is handed on to Server::handle and ends it, as a *)
(* `?` on the session's result in the accept loop would.                *)
ReturnPropagates(r) ==
    /\ pc' = "done"
    /\ result' = r
    /\ client_conn' = "closed"
    /\ client_rd' = "dropped"
    /\ client_wr' = "shutdown"
    /\ IF r = "Ok"
       THEN UNCHANGED server
       ELSE /\ listener' = "closed"
            /\ handle_result' = "Err"
            /\ UNCHANGED <<others, runtime>>

(* handle_connection returns r: the task ends and drops both client halves  *)
(* (dropping an OwnedWriteHalf shuts the write direction down).  The task    *)
(* spawned at line 60 only prints "err" for an error (lines 68..70).         *)
Return(r) ==
    /\ pc' = "done"
    /\ result' = r
    /\ client_conn' = "closed"
    /\ client_rd' = "dropped"
    /\ client_wr' = "shutdown"
    /\ UNCHANGED server

Goto(l) ==
    /\ pc' = l
    /\ UNCHANGED <<result, client_conn, client_halves, server>>

(* ------------------------------------------------------------------ *)
(* handle_connection: greeting                                          *)
(* ------------------------------------------------------------------ *)
ReadVer ==
    /\ pc = "L80"
    /\ IF Avail = 0
       THEN Return("UnexpectedEof") /\ UNCHANGED <<pos, ver>>
       ELSE /\ pos' = pos + 1
            /\ ver' = client_stream[pos + 1]
            /\ IF VERSION # ver' THEN Return("InvalidInput") ELSE Goto("L84")
    /\ UNCHANGED <<client_stream, reader_buffer, n_method, method_len, req_locals,
                   addr_locals, n_read, written, net, relay>>

ReadNMethod ==
    /\ pc = "L84"
    /\ IF Avail = 0
       THEN Return("UnexpectedEof") /\ UNCHANGED <<pos, n_method>>
       ELSE /\ pos' = pos + 1
            /\ n_method' = client_stream[pos + 1]
            /\ Goto("L85")
    /\ UNCHANGED <<client_stream, reader_buffer, ver, method_len, req_locals,
                   addr_locals, n_read, written, net, relay>>

ReadMethods ==
    /\ pc = "L85"
    /\ SliceInRange(n_method)
    /\ \E k \in ReadCounts(n_method) :
         /\ reader_buffer' = BufferStore(reader_buffer, Taken(k))
         /\ pos' = pos + k
         /\ method_len' = k
         /\ IF n_method # k THEN Return("InvalidInput") ELSE Goto("L89")
    /\ UNCHANGED <<client_stream, ver, n_method, req_locals, addr_locals, n_read,
                   written, net, relay>>

(* write_all(&[5, 0]); it fails when the client is gone *)
WriteMethodSelection ==
    /\ pc = "L89"
    /\ \/ written' = Append(written, [line |-> 89, bytes |-> <<5, 0>>]) /\ Goto("L91")
       \/ UNCHANGED written /\ Return("BrokenPipe")
    /\ UNCHANGED <<client_stream, pos, reader_buffer, locals, n_read, net, relay>>

(* ------------------------------------------------------------------ *)
(* handle_connection: request header                                    *)
(* ------------------------------------------------------------------ *)
ReadVerReq ==
    /\ pc = "L91"
    /\ IF Avail = 0
       THEN Return("UnexpectedEof") /\ UNCHANGED <<pos, ver_req>>
       ELSE /\ pos' = pos + 1
            /\ ver_req' = client_stream[pos + 1]
            /\ IF VERSION # ver_req' THEN Return("InvalidInput") ELSE Goto("L95")
    /\ UNCHANGED <<client_stream, reader_buffer, greet_locals, cmd, rsv, addr_locals,
                   n_read, written, net, relay>>

ReadCmd ==
    /\ pc = "L95"
    /\ IF Avail = 0
       THEN Return("UnexpectedEof") /\ UNCHANGED <<pos, cmd>>
       ELSE /\ pos' = pos + 1
            /\ cmd' = client_stream[pos + 1]
            /\ Goto("L96")
    /\ UNCHANGED <<client_stream, reader_buffer, greet_locals, ver_req, rsv,
                   addr_locals, n_read, written, net, relay>>

ReadRsv ==
    /\ pc = "L96"
    /\ IF Avail = 0
       THEN Return("UnexpectedEof") /\ UNCHANGED <<pos, rsv>>
       ELSE /\ pos' = pos + 1
            /\ rsv' = client_stream[pos + 1]
            /\ Goto("L106")
    /\ UNCHANGED <<client_stream, reader_buffer, greet_locals, ver_req, cmd,
                   addr_locals, n_read, written, net, relay>>

(* ------------------------------------------------------------------ *)
(* handle_connection_addr                                               *)
(* ------------------------------------------------------------------ *)
(* The match without its default arm: an unknown type goes on to the port. *)
ReadAtypNoDefault ==
    /\ pc = "L106"
    /\ IF Avail = 0
       THEN Return("UnexpectedEof") /\ UNCHANGED <<pos, atyp>>
       ELSE /\ pos' = pos + 1
            /\ atyp' = client_stream[pos + 1]
            /\ CASE atyp' = ATYP_IPV4        -> Goto("L110")
                 [] atyp' = ATYP_DOMAIN_NAME -> Goto("L114")
                 [] atyp' = ATYP_IPV6        -> Goto("L133")
                 [] OTHER                    -> Goto("L140")
    /\ UNCHANGED <<client_stream, reader_buffer, greet_locals, req_locals, dst_addr,
                   dst_addr_len, dst_addr_len_count, dst_port, n_read, written, net,
                   relay>>

ReadAtyp ==
    /\ pc = "L106"
    /\ IF Avail = 0
       THEN Return("UnexpectedEof") /\ UNCHANGED <<pos, atyp>>
       ELSE /\ pos' = pos + 1
            /\ atyp' = client_stream[pos + 1]
            /\ CASE atyp' = ATYP_IPV4        -> Goto("L110")
                 [] atyp' = ATYP_DOMAIN_NAME -> Goto("L114")
                 [] atyp' = ATYP_IPV6        -> Goto("L133")
                 [] OTHER                    -> Return("InvalidInput")
    /\ UNCHANGED <<client_stream, reader_buffer, greet_locals, req_locals, dst_addr,
                   dst_addr_len, dst_addr_len_count, dst_port, n_read, written, net,
                   relay>>

(* The count read() returns is discarded; the String is made of the slice. *)
ReadIPv4 ==
    /\ pc = "L110"
    /\ SliceInRange(4)
    /\ \E k \in ReadCounts(4) :
         /\ reader_buffer' = BufferStore(reader_buffer, Taken(k))
         /\ pos' = pos + k
         /\ n_read' = k
    /\ dst_addr' = from_utf8_lossy(BufferSlice(reader_buffer', 4))
    /\ Goto("L140")
    /\ UNCHANGED <<client_stream, greet_locals, req_locals, atyp, dst_addr_len,
                   dst_addr_len_count, dst_port, written, net, relay>>

(* A length field of two bytes, big-endian, in place of read_u8. *)
ReadDomainLenU16 ==
    /\ pc = "L114"
    /\ IF Avail < 2
       THEN /\ Return("UnexpectedEof")
            /\ UNCHANGED <<pos, dst_addr_len, dst_addr_len_count, dst_addr>>
       ELSE /\ pos' = pos + 2
            /\ dst_addr_len' = client_stream[pos + 1] * 256 + client_stream[pos + 2]
            /\ IF dst_addr_len' > DomainLenLimit
               THEN Return("InvalidInput") /\ UNCHANGED <<dst_addr_len_count, dst_addr>>
               ELSE /\ dst_addr_len_count' = dst_addr_len'
                    /\ dst_addr' = <<>>
                    /\ IF dst_addr_len_count' # 0 THEN Goto("L120") ELSE Goto("L140")
    /\ UNCHANGED <<client_stream, reader_buffer, greet_locals, req_locals, atyp,
                   dst_port, n_read, written, net, relay>>

ReadDomainLen ==
    /\ pc = "L114"
    /\ IF Avail = 0
       THEN /\ Return("UnexpectedEof")
            /\ UNCHANGED <<pos, dst_addr_len, dst_addr_len_count, dst_addr>>
       ELSE /\ pos' = pos + 1
            /\ dst_addr_len' = client_stream[pos + 1]
            /\ IF dst_addr_len' > DomainLenLimit
               THEN Return("InvalidInput") /\ UNCHANGED <<dst_addr_len_count, dst_addr>>
               ELSE /\ dst_addr_len_count' = dst_addr_len'
                    /\ dst_addr' = <<>>
                    /\ IF dst_addr_len_count' # 0 THEN Goto("L120") ELSE Goto("L140")
    /\ UNCHANGED <<client_stream, reader_buffer, greet_locals, req_locals, atyp,
                   dst_port, n_read, written, net, relay>>

(* One iteration of the while loop of lines 120..130. *)
ReadDomainChunk ==
    /\ pc = "L120"
    /\ LET want == IF dst_addr_len_count > READER_BUFFER_LEN
                   THEN READER_BUFFER_LEN ELSE dst_addr_len_count
       IN /\ SliceInRange(want)
          /\ \E k \in ReadCounts(want) :
               /\ reader_buffer' = BufferStore(reader_buffer, Taken(k))
               /\ pos' = pos + k
               /\ n_read' = k
          /\ dst_addr' = dst_addr \o from_utf8_lossy(BufferSlice(reader_buffer', want))
          /\ dst_addr_len_count' = IF dst_addr_len_count > READER_BUFFER_LEN
                                   THEN dst_addr_len_count - READER_BUFFER_LEN ELSE 0
    /\ IF dst_addr_len_count' # 0 THEN Goto("L120") ELSE Goto("L140")
    /\ UNCHANGED <<client_stream, greet_locals, req_locals, atyp, dst_addr_len,
                   dst_port, written, net, relay>>

ReadIPv6 ==
    /\ pc = "L133"
    /\ SliceInRange(16)
    /\ \E k \in ReadCounts(16) :
         /\ reader_buffer' = BufferStore(reader_buffer, Taken(k))
         /\ pos' = pos + k
         /\ n_read' = k
    /\ dst_addr' = from_utf8_lossy(BufferSlice(reader_buffer', 16))
    /\ Goto("L140")
    /\ UNCHANGED <<client_stream, greet_locals, req_locals, atyp, dst_addr_len,
                   dst_addr_len_count, dst_port, written, net, relay>>

(* read_u16: both bytes or UnexpectedEof; then the Address is returned. *)
ReadPort ==
    /\ pc = "L140"
    /\ IF Avail < 2
       THEN /\ pos' = Len(client_stream)
            /\ Return("UnexpectedEof")
            /\ UNCHANGED dst_port
       ELSE /\ pos' = pos + 2
            /\ dst_port' = client_stream[pos + 1] * 256 + client_stream[pos + 2]
            /\ Goto("L149")
    /\ UNCHANGED <<client_stream, reader_buffer, greet_locals, req_locals, atyp,
                   dst_addr, dst_addr_len, dst_addr_len_count, n_read, written, net,
                   relay>>

(* ------------------------------------------------------------------ *)
(* handle_connection_down                                               *)
(* ------------------------------------------------------------------ *)
SuccessReply == <<5, 0, 0, 1, 0, 0, 0, 0, 0, 0>>

parse_state == <<client_stream, pos, reader_buffer, locals, n_read>>

(* The connect error ignored: the arm goes on to the Reply all the same. *)
ConnectTcpIgnoreError ==
    /\ pc = "L149"
    /\ cmd = CMD_CONNECT
    /\ connect_arg' = <<dst_addr, dst_port>>
    /\ \/ /\ outbound' = "open"
          /\ remote_rd' = "open" /\ remote_wr' = "open"
       \/ /\ outbound' = "failed"
          /\ UNCHANGED <<remote_rd, remote_wr>>
    /\ Goto("L152")
    /\ UNCHANGED <<parse_state, written, udp_socket, relay>>

(* CMD_CONNECT: handle_connect_tcp; `?` returns the connect error as it is. *)
ConnectTcp ==
    /\ pc = "L149"
    /\ cmd = CMD_CONNECT
    /\ connect_arg' = <<dst_addr, dst_port>>
    /\ \/ /\ outbound' = "open"
          /\ remote_rd' = "open" /\ remote_wr' = "open"
          /\ Goto("L152")
       \/ /\ \E e \in ConnectErrors : outbound' = "failed" /\ Return(e)
          /\ UNCHANGED <<remote_rd, remote_wr>>
    /\ UNCHANGED <<parse_state, written, udp_socket, relay>>

(* A reply write whose failure path keeps the outbound connection: what *)
(* line 152 would do if the remote halves outlived the early return.    *)
WriteReplyLeak ==
    /\ pc = "L152"
    /\ \/ /\ written' = Append(written, [line |-> 152, bytes |-> SuccessReply])
          /\ Goto("L154")
       \/ /\ UNCHANGED written
          /\ Return("BrokenPipe")
    /\ UNCHANGED <<outbound, remote_rd, remote_wr>>
    /\ UNCHANGED <<parse_state, connect_arg, udp_socket, relay>>

WriteReply ==
    /\ pc = "L152"
    /\ \/ /\ written' = Append(written, [line |-> 152, bytes |-> SuccessReply])
          /\ Goto("L154")
          /\ UNCHANGED <<outbound, remote_rd, remote_wr>>
       \/ /\ UNCHANGED written
          /\ outbound' = "closed"
          /\ remote_rd' = "dropped" /\ remote_wr' = "shutdown"
          /\ Return("BrokenPipe")
    /\ UNCHANGED <<parse_state, connect_arg, udp_socket, relay>>

SpawnUpstream ==
    /\ pc = "L154"
    /\ task_upstream' = "running"
    /\ Goto("L160")
    /\ UNCHANGED <<parse_state, written, net, task_downstream, up_fwd, down_cnt>>

SpawnDownstream ==
    /\ pc = "L160"
    /\ task_downstream' = "running"
    /\ Goto("L166")
    /\ UNCHANGED <<parse_state, written, net, task_upstream, up_fwd, down_cnt>>

(* A join that ends as soon as one of the tasks has. *)
JoinOnFirstEnd ==
    /\ pc = "L166"
    /\ task_upstream \in {"Ok", "Err"} \/ task_downstream \in {"Ok", "Err"}
    /\ Return("Ok")
    /\ UNCHANGED <<parse_state, written, net, relay>>

(* try_join! of the two JoinHandles: each yields Ok(task result) once its    *)
(* task has finished, so the join ends when both have and `?` sees no        *)
(* JoinError; the tasks' own io results are not looked at.  The halves were  *)
(* moved into the tasks and dropped when these ended.                        *)
Join ==
    /\ pc = "L166"
    /\ task_upstream \in {"Ok", "Err"}
    /\ task_downstream \in {"Ok", "Err"}
    /\ Return("Ok")
    /\ UNCHANGED <<parse_state, written, net, relay>>

(* CMD_ASSOCIATE: handle_connect_udp binds a socket (or fails), ... *)
BindUdp ==
    /\ pc = "L149"
    /\ cmd = CMD_ASSOCIATE
    /\ \/ udp_socket' = "bound" /\ Goto("L171")
       \/ udp_socket' = "failed" /\ Return("Other")
    /\ UNCHANGED <<parse_state, written, connect_arg, outbound, remote_rd, remote_wr,
                   relay>>

(* ... and the arm returns an error at once, dropping the socket. *)
Unimplemented ==
    /\ pc = "L171"
    /\ udp_socket' = "closed"
    /\ Return("InvalidInput")
    /\ UNCHANGED <<parse_state, written, connect_arg, outbound, remote_rd, remote_wr,
                   relay>>

InvalidCmd ==
    /\ pc = "L149"
    /\ cmd \notin {CMD_CONNECT, CMD_ASSOCIATE}
    /\ Return("InvalidInput")
    /\ UNCHANGED <<parse_state, written, net, relay>>

(* ------------------------------------------------------------------ *)
(* The forwarding tasks: tokio::io::copy                                *)
(* ------------------------------------------------------------------ *)
session == <<pc, result, client_conn>>

(* A task that ends drops the future it ran and with it the halves that were  *)
(* moved into it: task_upstream owns client_reader and remote_writer,         *)
(* task_downstream owns remote_reader and client_writer.  Dropping an         *)
(* OwnedWriteHalf shuts its direction down; a stream is closed once both of   *)
(* its halves are dropped.                                                    *)
UpstreamEnd(r) ==
    /\ task_upstream' = r
    /\ client_rd' = "dropped"
    /\ remote_wr' = "shutdown"
    /\ client_conn' = IF client_wr = "shutdown" THEN "closed" ELSE client_conn
    /\ outbound' = IF remote_rd = "dropped" THEN "closed" ELSE outbound
    /\ UNCHANGED <<parse_state, written, connect_arg, udp_socket, remote_rd, client_wr,
                   pc, result, task_downstream, up_fwd, down_cnt, server>>

DownstreamEnd(r) ==
    /\ task_downstream' = r
    /\ remote_rd' = "dropped"
    /\ client_wr' = "shutdown"
    /\ client_conn' = IF client_rd = "dropped" THEN "closed" ELSE client_conn
    /\ outbound' = IF remote_wr = "shutdown" THEN "closed" ELSE outbound
    /\ UNCHANGED <<parse_state, written, connect_arg, udp_socket, remote_wr, client_rd,
                   pc, result, task_upstream, up_fwd, down_cnt, server>>

UpstreamCopy ==
    /\ task_upstream = "running"
    /\ Avail > 0
    /\ \E k \in 1..Avail :
         /\ up_fwd' = up_fwd \o Taken(k)
         /\ pos' = pos + k
    /\ UNCHANGED <<client_stream, reader_buffer, locals, n_read, written, net,
                   session, client_halves, task_upstream, task_downstream, down_cnt,
                   server>>

(* The task ending with its halves kept alive: nothing is shut down. *)
UpstreamEofNoShutdown ==
    /\ task_upstream = "running"
    /\ Avail = 0
    /\ task_upstream' = "Ok"
    /\ UNCHANGED <<parse_state, written, net, session, client_halves, task_downstream,
                   up_fwd, down_cnt, server>>

(* the client's end-of-stream: copy returns Ok *)
UpstreamEof ==
    /\ task_upstream = "running"
    /\ Avail = 0
    /\ UpstreamEnd("Ok")

(* an io error reading the client or writing the remote *)
UpstreamErr ==
    /\ task_upstream = "running"
    /\ UpstreamEnd("Err")

DownstreamCopy ==
    /\ task_downstream = "running"
    /\ down_cnt < MaxRemote
    /\ \E b \in RemoteBytes :
         written' = Append(written, [line |-> 162, bytes |-> <<b>>])
    /\ down_cnt' = down_cnt + 1
    /\ UNCHANGED <<parse_state, net, session, client_halves, task_upstream,
                   task_downstream, up_fwd, server>>

(* the remote's end-of-stream *)
DownstreamEof ==
    /\ task_downstream = "running"
    /\ DownstreamEnd("Ok")

(* an io error reading the remote or writing the client *)
DownstreamErr ==
    /\ task_downstream = "running"
    /\ DownstreamEnd("Err")

Next ==
    \/ ReadVer
    \/ ReadNMethod
    \/ ReadMethods
    \/ WriteMethodSelection
    \/ ReadVerReq
    \/ ReadCmd
    \/ ReadRsv
    \/ ReadAtyp
    \/ ReadIPv4
    \/ ReadDomainLen
    \/ ReadDomainChunk
    \/ ReadIPv6
    \/ ReadPort
    \/ ConnectTcp
    \/ WriteReply
    \/ SpawnUpstream
    \/ SpawnDownstream
    \/ Join
    \/ BindUdp
    \/ Unimplemented
    \/ InvalidCmd
    \/ UpstreamCopy
    \/ UpstreamEof
    \/ UpstreamErr
    \/ DownstreamCopy
    \/ DownstreamEof
    \/ DownstreamErr

Spec == Init /\ [][Next]_vars

TypeOK ==
    /\ pos \in 0..Len(client_stream)
    /\ pc \in {"L80", "L84", "L85", "L89", "L91", "L95", "L96", "L106", "L110",
               "L114", "L120", "L133", "L140", "L149", "L152", "L154", "L160",
               "L166", "L171", "done", "cancelled"}
    /\ listener \in {"accepting", "closed"}
    /\ handle_result \in {"pending", "Ok", "Err"}
    /\ runtime \in {"running", "shutdown"}
    /\ \A i \in 1..Len(others) : others[i] \in {"running", "Ok", "Err", "cancelled"}
    /\ (pc = "done") = (result # "pending")
    /\ (pc = "done") => client_conn = "closed"
    /\ client_conn = "closed" <=> (client_rd = "dropped" /\ client_wr = "shutdown")
    /\ outbound = "closed" <=> (remote_rd = "dropped" /\ remote_wr = "shutdown")
    /\ outbound \in {"none", "failed"} <=> (remote_rd = "none" /\ remote_wr = "none")
    /\ Len(reader_buffer) <= READER_BUFFER_LEN
    /\ \A i \in 1..Len(reader_buffer) : reader_buffer[i] \in 0..255
    /\ \A i \in 1..Len(dst_addr) : dst_addr[i] \in 0..255

(* ================================================================== *)
(* Properties                                                           *)
(* ================================================================== *)

(* A request Reply is a write on client_writer that is neither the       *)
(* method-selection reply (line 89) nor relayed remote data (line 162).  *)
IsReply(w) == w.line \notin {89, 162}
RequestReplies == SelectSeq(written, IsReply)

HeaderRead == rsv # Unset
AddrParsed == dst_port # Unset
TasksStarted == task_upstream # "none" \/ task_downstream # "none"

(* The session ended because the client connection itself failed. *)
ClientGone == result \in {"UnexpectedEof", "BrokenPipe"}

(* Where the fields lie in the client's stream (1-based), once read. *)
AtypIdx == 2 + n_method + 4
AddrLenByFormat ==
    CASE atyp = ATYP_IPV4        -> 4
      [] atyp = ATYP_DOMAIN_NAME -> 1 + dst_addr_len
      [] atyp = ATYP_IPV6        -> 16
PortEnd == AtypIdx + AddrLenByFormat + 2

(* The reply code of a Reply is its second byte: 0 succeeded, 1 general   *)
(* failure, 4 host unreachable, 5 connection refused, 7 command not       *)
(* supported.                                                             *)
ReplyCode(w) == w.bytes[2]
Succeeded(w) == ReplyCode(w) = 0

(* ---- C1 ---------------------------------------------------------- *)
(* C1: in every session that has read a request header, exactly one    *)
(* request Reply has been written by the time the session is terminal  *)
(* (unless the client connection itself failed), and never more than   *)
(* one request Reply is written.                                       *)
C1_ExactlyOneReply ==
    /\ Len(RequestReplies) <= 1
    /\ (pc = "done" /\ HeaderRead /\ ~ClientGone) => Len(RequestReplies) = 1

(* ---- C2 ---------------------------------------------------------- *)
(* The ordering part of C2: each step happens after the one before it. *)
StepsInOrder ==
    /\ n_method # Unset => ver = VERSION
    /\ method_len # Unset => n_method # Unset
    /\ written # <<>> => (method_len = n_method /\ written[1].line = 89)
    /\ ver_req # Unset => (written # <<>> /\ pos > 2 + n_method)
    /\ (n_method # Unset /\ pos > 2 + n_method) => written # <<>>
    /\ cmd # Unset => ver_req = VERSION
    /\ rsv # Unset => cmd # Unset
    /\ atyp # Unset => rsv # Unset
    /\ AddrParsed => atyp \in {ATYP_IPV4, ATYP_DOMAIN_NAME, ATYP_IPV6}
    /\ (outbound # "none" \/ udp_socket # "none" \/ connect_arg # <<>>) => AddrParsed
    /\ RequestReplies # <<>> => AddrParsed
    /\ TasksStarted => RequestReplies # <<>>

(* C2: every session goes through version check, method negotiation,   *)
(* request header, address and port in this order, opens nothing and   *)
(* writes no request Reply before the address and port are parsed,     *)
(* reads no request byte before the method-selection reply, and after  *)
(* the address parse ends with reply + relay or with a failure reply   *)
(* + close.                                                            *)
C2_StepOrder ==
    /\ StepsInOrder
    /\ (pc = "done" /\ AddrParsed /\ ~ClientGone) =>
         \/ /\ Len(RequestReplies) = 1
            /\ Succeeded(RequestReplies[1])
            /\ task_upstream # "none" /\ task_downstream # "none"
         \/ /\ Len(RequestReplies) = 1
            /\ ~Succeeded(RequestReplies[1])
            /\ ~TasksStarted

(* ---- C3 ---------------------------------------------------------- *)
GreetingRead == method_len # Unset /\ method_len = n_method
OfferedMethods == SubSeq(client_stream, 3, 2 + n_method)
OffersNoAuth == \E i \in 1..Len(OfferedMethods) : OfferedMethods[i] = 0
SelectionWriteFailed == pc = "done" /\ written = <<>> /\ result = "BrokenPipe"

(* C3: a version 5 greeting that offers method 0 is answered 05 00 and *)
(* the session goes on to the request; one that does not offer method  *)
(* 0 never gets a success Reply or a relay task.                       *)
C3_MethodNegotiation ==
    (ver = VERSION /\ GreetingRead) =>
      /\ (OffersNoAuth /\ pc # "L89" /\ ~SelectionWriteFailed) =>
           (written # <<>> /\ written[1].bytes = <<VERSION, 0>>)
      /\ ~OffersNoAuth =>
           /\ \A i \in 1..Len(RequestReplies) :
                ~Succeeded(RequestReplies[i])
           /\ ~TasksStarted

(* ---- C4 ---------------------------------------------------------- *)
RECURSIVE DecText(_)
DecText(n) == IF n < 10 THEN <<48 + n>> ELSE DecText(n \div 10) \o <<48 + (n % 10)>>

(* "a.b.c.d" *)
DottedDecimal(o) ==
    DecText(o[1]) \o <<46>> \o DecText(o[2]) \o <<46>> \o DecText(o[3]) \o <<46>>
      \o DecText(o[4])

HexDigit(d) == IF d < 10 THEN 48 + d ELSE 87 + d
RECURSIVE HexText(_)
HexText(n) == IF n < 16 THEN <<HexDigit(n)>> ELSE HexText(n \div 16) \o <<HexDigit(n % 16)>>

Group(o, i) == o[2 * i - 1] * 256 + o[2 * i]
RECURSIVE ZeroRun(_, _)
ZeroRun(o, i) == IF i > 8 \/ Group(o, i) # 0 THEN 0 ELSE 1 + ZeroRun(o, i + 1)
RECURSIVE JoinGroups(_, _, _)
JoinGroups(o, i, j) ==
    IF i > j THEN <<>>
    ELSE IF i = j THEN HexText(Group(o, i))
    ELSE HexText(Group(o, i)) \o <<58>> \o JoinGroups(o, i + 1, j)

(* The groups in hex without leading zeros, the first longest run of two or  *)
(* more zero groups written "::".                                            *)
ColonHex(o) ==
    LET longest == CHOOSE n \in 0..8 :
                     /\ \E i \in 1..8 : ZeroRun(o, i) = n
                     /\ \A i \in 1..8 : ZeroRun(o, i) <= n
    IN IF longest < 2 THEN JoinGroups(o, 1, 8)
       ELSE LET start == CHOOSE i \in 1..8 :
                           /\ ZeroRun(o, i) = longest
                           /\ \A j \in 1..(i - 1) : ZeroRun(o, j) < longest
            IN JoinGroups(o, 1, start - 1) \o <<58, 58>>
                 \o JoinGroups(o, start + longest, 8)

(* C4: the host handed to the outbound connect is the dotted-decimal   *)
(* text of the four raw octets for address type 1 and the canonical    *)
(* colon-hex text of the sixteen raw octets for address type 4 (stated  *)
(* for the requests whose octets were read in one piece).              *)
C4_IpFormatting ==
    /\ (connect_arg # <<>> /\ atyp = ATYP_IPV4 /\ n_read = 4) =>
         connect_arg[1] = DottedDecimal(SubSeq(client_stream, AtypIdx + 1, AtypIdx + 4))
    /\ (connect_arg # <<>> /\ atyp = ATYP_IPV6 /\ n_read = 16) =>
         connect_arg[1] = ColonHex(SubSeq(client_stream, AtypIdx + 1, AtypIdx + 16))

(* ---- C5 ---------------------------------------------------------- *)
ReplyCodeFor(e) ==
    CASE e = "ConnectionRefused" -> 5
      [] e = "HostUnreachable"   -> 4
      [] OTHER                   -> 1

(* C5: when the outbound connect of a CONNECT request fails, no relay  *)
(* task is started, no success Reply is written and exactly one        *)
(* failure Reply is written, whose code reflects the cause.            *)
C5_ConnectFailureReply ==
    (pc = "done" /\ outbound = "failed") =>
      /\ ~TasksStarted
      /\ Len(RequestReplies) = 1
      /\ ReplyCode(RequestReplies[1]) = ReplyCodeFor(result)

(* ---- C6 ---------------------------------------------------------- *)
(* C6: a read of the method list or of the domain name that returns    *)
(* fewer bytes than declared makes the session fail; no method         *)
(* selection and no Address is ever made from a truncated field.       *)
C6_LengthPrefixedInFull ==
    /\ (method_len # Unset /\ method_len < n_method) =>
         (pc = "done" /\ result = "InvalidInput" /\ written = <<>>)
    /\ (atyp = ATYP_DOMAIN_NAME /\ n_read # Unset /\ n_read < dst_addr_len) =>
         (~AddrParsed /\ pc \notin {"L149", "L152", "L154", "L160", "L166", "L171"}
            /\ result # "Ok")

(* ---- C7 ---------------------------------------------------------- *)
(* C7: once the address is parsed the decoder has consumed exactly the *)
(* address-type byte, the address bytes of that type and the two port  *)
(* bytes, and the first byte the upstream task forwards is the first   *)
(* client byte after the port (stated for the clients that sent all    *)
(* the bytes the format specifies).                                    *)
C7_ExactConsumption ==
    (AddrParsed /\ Len(client_stream) >= PortEnd) =>
      /\ pos - Len(up_fwd) = PortEnd
      /\ up_fwd # <<>> =>
           (Len(client_stream) > PortEnd /\ up_fwd[1] = client_stream[PortEnd + 1])

(* ---- C8 ---------------------------------------------------------- *)
(* C8: for address type 3 the host handed to the outbound connect is   *)
(* exactly the host bytes the client sent after the length byte.       *)
C8_DomainUnmodified ==
    (connect_arg # <<>> /\ atyp = ATYP_DOMAIN_NAME) =>
      /\ Len(client_stream) >= AtypIdx + 1 + dst_addr_len
      /\ connect_arg[1] =
           SubSeq(client_stream, AtypIdx + 2, AtypIdx + 1 + dst_addr_len)

(* ---- C9 ---------------------------------------------------------- *)
(* C9: a request whose command is neither CONNECT nor ASSOCIATE opens  *)
(* nothing, starts no relay and gets one failure Reply with the        *)
(* command-not-supported code before the session closes.               *)
C9_UnsupportedCommand ==
    (pc = "done" /\ AddrParsed /\ cmd \notin {CMD_CONNECT, CMD_ASSOCIATE}) =>
      /\ outbound = "none" /\ udp_socket = "none" /\ connect_arg = <<>>
      /\ ~TasksStarted
      /\ Len(RequestReplies) = 1
      /\ ReplyCode(RequestReplies[1]) = 7

(* ---- C10 --------------------------------------------------------- *)
BadGreetingVersion == ver \notin {Unset, VERSION}
BadRequestVersion == ver_req \notin {Unset, VERSION}
BadAddressType == atyp \notin {Unset, ATYP_IPV4, ATYP_DOMAIN_NAME, ATYP_IPV6}

(* C10: a version byte other than 5 in the greeting or the request     *)
(* header, or an address type outside {1, 3, 4}, ends the session with *)
(* an error, with no outbound connection or UDP socket opened and no   *)
(* relay task started; after a greeting version mismatch nothing has   *)
(* been written to the client.                                         *)
C10_ParseViolationsTerminal ==
    /\ (BadGreetingVersion \/ BadRequestVersion \/ BadAddressType) =>
         /\ pc = "done" /\ result = "InvalidInput"
         /\ outbound = "none" /\ udp_socket = "none" /\ connect_arg = <<>>
         /\ ~TasksStarted
    /\ BadGreetingVersion => written = <<>>

(* A session ended by an unsupported address type after a completed greeting. *)
C10_Witness ==
    /\ pc = "done" /\ BadAddressType
    /\ ver = VERSION /\ ver_req = VERSION /\ Len(written) = 1

C10_WitnessGreetingVersion == pc = "done" /\ BadGreetingVersion
C10_WitnessRequestVersion == pc = "done" /\ BadRequestVersion /\ Len(written) = 1

(* Reachable cases of the defects the properties above run into. *)
ShortDomainReadKeepsStaleBytes ==
    /\ connect_arg # <<>> /\ atyp = ATYP_DOMAIN_NAME
    /\ n_read # Unset /\ n_read < dst_addr_len /\ n_method >= dst_addr_len
    /\ Len(client_stream) >= AtypIdx + 1 + dst_addr_len
    /\ connect_arg[1][dst_addr_len] = OfferedMethods[dst_addr_len]
    /\ connect_arg[1][dst_addr_len] # client_stream[AtypIdx + 1 + dst_addr_len]

(* ---- C11 --------------------------------------------------------- *)
Finished(t) == t \in {"Ok", "Err"}

(* C11: the success Reply is exactly 05 00 00 01 00 00 00 00 00 00,    *)
(* written for a CONNECT after the outbound connection succeeded and   *)
(* before either forwarding task is started, so before any relayed     *)
(* remote byte; it is never written without an established connection. *)
C11_SuccessReplyOrder ==
    /\ \A i \in 1..Len(written) :
         written[i].line = 152 =>
           /\ written[i].bytes = <<5, 0, 0, 1, 0, 0, 0, 0, 0, 0>>
           /\ i = 2
           /\ cmd = CMD_CONNECT
           /\ outbound \in {"open", "closed"}
    /\ \A i \in 1..Len(written) : written[i].line = 162 => i > 2
    /\ (TasksStarted \/ pc \in {"L154", "L160", "L166"}) =>
         (Len(written) >= 2 /\ written[2].line = 152)
    /\ outbound \in {"none", "failed"} => RequestReplies = <<>>

(* A relayed remote byte has reached the client, after the Reply. *)
C11_Witness ==
    /\ Len(written) = 3
    /\ written[2].bytes = <<5, 0, 0, 1, 0, 0, 0, 0, 0, 0>>
    /\ written[3].line = 162

(* ---- C12 --------------------------------------------------------- *)
(* C12: the session result is an error when either forwarding task     *)
(* ended with an I/O error, and Ok only when both ended without error.  *)
C12_ResultReflectsRelayFailure ==
    (pc = "done" /\ TasksStarted) =>
      (result = "Ok" <=> (task_upstream = "Ok" /\ task_downstream = "Ok"))

(* ---- C13 --------------------------------------------------------- *)
(* C13: the session is complete only after both forwarding tasks have  *)
(* finished, and the end of one task, by end-of-stream or by error,    *)
(* leaves the other task running with its two halves open.             *)
C13_BothDirectionsFinish ==
    /\ [](/\ (pc = "done" /\ TasksStarted) =>
               (Finished(task_upstream) /\ Finished(task_downstream))
          /\ task_upstream = "running" =>
               (client_rd = "open" /\ remote_wr = "open" /\ pc # "done")
          /\ task_downstream = "running" =>
               (remote_rd = "open" /\ client_wr = "open" /\ pc # "done"))
    /\ [][/\ task_upstream' # task_upstream =>
               UNCHANGED <<task_downstream, remote_rd, client_wr, down_cnt>>
          /\ task_downstream' # task_downstream =>
               UNCHANGED <<task_upstream, client_rd, remote_wr, up_fwd, pos>>]_vars

(* One direction has ended by an error while the other is still running. *)
C13_Witness ==
    /\ pc = "L166"
    /\ task_upstream = "Err"
    /\ task_downstream = "running"
    /\ down_cnt < MaxRemote

(* ---- C14 --------------------------------------------------------- *)
(* C14: a forwarding task that has ended, by end-of-stream or by       *)
(* error, has shut down the write half it owns, and the halves of the  *)
(* opposite direction stay open while that direction is running.       *)
C14_HalfClose ==
    /\ Finished(task_upstream) => remote_wr = "shutdown"
    /\ Finished(task_downstream) => client_wr = "shutdown"
    /\ (Finished(task_upstream) /\ task_downstream = "running") =>
         (remote_rd = "open" /\ client_wr = "open" /\ outbound = "open")
    /\ (Finished(task_downstream) /\ task_upstream = "running") =>
         (client_rd = "open" /\ remote_wr = "open" /\ client_conn = "open")

(* The client's end-of-stream was passed on to the remote while the remote  *)
(* can still send.                                                          *)
C14_Witness ==
    /\ task_upstream = "Ok"
    /\ task_downstream = "running"
    /\ remote_wr = "shutdown"
    /\ remote_rd = "open"

(* ---- C15 --------------------------------------------------------- *)
(* The steps of the session task: every await of handle_connection      *)
(* completes, since the client's stream is finite and ends, a connect    *)
(* or bind returns, and the join returns once both tasks have finished.  *)
SessionStep ==
    \/ ReadVer \/ ReadNMethod \/ ReadMethods \/ WriteMethodSelection
    \/ ReadVerReq \/ ReadCmd \/ ReadRsv
    \/ ReadAtyp \/ ReadIPv4 \/ ReadDomainLen \/ ReadDomainChunk \/ ReadIPv6 \/ ReadPort
    \/ ConnectTcp \/ WriteReply \/ SpawnUpstream \/ SpawnDownstream \/ Join
    \/ BindUdp \/ Unimplemented \/ InvalidCmd

(* The upstream task is run by the scheduler whenever client bytes or the  *)
(* client's end-of-stream are there to be read.  Nothing makes the remote  *)
(* send, close or fail, so the downstream steps get no fairness.           *)
UpstreamStep == UpstreamCopy \/ UpstreamEof

FairSpec == Spec /\ WF_vars(SessionStep) /\ WF_vars(UpstreamStep)

(* C15: once the client has closed during a TCP relay (all it sent is   *)
(* read and its end-of-stream is next), eventually both forwarding      *)
(* tasks have finished, the session is terminal and the outbound        *)
(* connection is released, whatever the remote does.                    *)
C15_ClientCloseEndsSession ==
    (task_upstream = "running" /\ task_downstream = "running" /\ Avail = 0)
      ~> (/\ pc = "done"
          /\ Finished(task_upstream) /\ Finished(task_downstream)
          /\ outbound = "closed")

(* ---- C17 --------------------------------------------------------- *)
HoldsOutbound == outbound = "open" \/ remote_rd = "open" \/ remote_wr = "open"
HoldsUdp == udp_socket = "bound"

(* C17: in every terminal session state both halves of the client      *)
(* connection are closed and neither an outbound TCP connection nor a   *)
(* UDP socket of the session is still open; an outbound connection or   *)
(* a UDP socket is only ever opened by a session that has opened none   *)
(* before, so a session never holds more than one of either.            *)
C17_ResourcesReleased ==
    /\ [](pc = "done" =>
            /\ client_rd = "dropped" /\ client_wr = "shutdown"
            /\ client_conn = "closed"
            /\ ~HoldsOutbound
            /\ ~HoldsUdp)
    /\ [][(outbound' = "open" /\ outbound # "open") =>
            (outbound = "none" /\ udp_socket = "none")]_vars
    /\ [][(udp_socket' = "bound" /\ udp_socket # "bound") =>
            (udp_socket = "none" /\ outbound = "none")]_vars

(* The exit path with the most to release: the connection was opened and *)
(* the success Reply could not be written.                               *)
C17_Witness ==
    /\ pc = "done"
    /\ result = "BrokenPipe"
    /\ connect_arg # <<>>
    /\ outbound = "closed"
    /\ RequestReplies = <<>>

(* ---- C18 --------------------------------------------------------- *)
(* C18: a session that bound a UDP socket for an ASSOCIATE request has  *)
(* written exactly one Reply, a success Reply reporting the socket, by  *)
(* the time the socket is released.                                     *)
C18_AssociateReplyAndRelay ==
    (cmd = CMD_ASSOCIATE /\ udp_socket = "closed") =>
        /\ Len(RequestReplies) = 1
        /\ Succeeded(RequestReplies[1])

(* ---- C19 --------------------------------------------------------- *)
(* The same session, started on every stream of ByteStreams. *)
ByteInit ==
    /\ client_stream \in ByteStreams
    /\ Fresh
    /\ Listening

ByteSpec == ByteInit /\ [][Next]_vars

(* C19: for every method count and every domain length a byte can      *)
(* hold, each slice of reader_buffer taken by the greeting and address *)
(* parse lies within its 256 bytes; the domain loop is entered with    *)
(* the whole length remaining and at most 256, so it runs one          *)
(* iteration through the unchunked branch, and the length never        *)
(* exceeds the 8192 limit.                                             *)
C19_ScratchBufferBounds ==
    /\ n_method # Unset => (n_method \in Bytes /\ SliceInRange(n_method))
    /\ pc = "L110" => SliceInRange(4)
    /\ pc = "L133" => SliceInRange(16)
    /\ dst_addr_len # Unset =>
         (dst_addr_len \in Bytes /\ dst_addr_len <= DomainLenLimit)
    /\ pc = "L120" =>
         /\ dst_addr_len_count = dst_addr_len
         /\ dst_addr_len_count <= READER_BUFFER_LEN
         /\ SliceInRange(dst_addr_len_count)
    /\ (dst_addr_len_count # Unset /\ pc # "L120") => dst_addr_len_count = 0
    /\ Len(reader_buffer) <= READER_BUFFER_LEN

(* The longest domain: length byte 255, one iteration done. *)
C19_Witness ==
    /\ atyp = ATYP_DOMAIN_NAME
    /\ dst_addr_len = 255
    /\ dst_addr_len_count = 0
    /\ n_read = 1
    /\ Len(dst_addr) = 255
    /\ pc = "L140"

(* ================================================================== *)
(* Server::handle and main                                              *)
(* ================================================================== *)
MaxOthers == 2

(* accept() returns a connection: a task is spawned for it (lines 59..71). *)
Accept ==
    /\ listener = "accepting"
    /\ runtime = "running"
    /\ Len(others) < MaxOthers
    /\ others' = Append(others, "running")
    /\ UNCHANGED <<client_stream, pos, pc, result, reader_buffer, locals, n_read,
                   written, net, client_conn, client_halves, relay,
                   listener, handle_result, runtime>>

(* accept() failing with the error handed on, as `accept().await?` would. *)
AcceptErrorPropagates ==
    /\ listener = "accepting"
    /\ runtime = "running"
    /\ listener' = "closed"
    /\ handle_result' = "Err"
    /\ UNCHANGED <<client_stream, pos, pc, result, reader_buffer, locals, n_read,
                   written, net, client_conn, client_halves, relay, others, runtime>>

(* accept() returns an error: the `while let Ok(..)` loop ends and      *)
(* handle returns Ok(()) at line 73, dropping server_socket.            *)
AcceptError ==
    /\ listener = "accepting"
    /\ runtime = "running"
    /\ listener' = "closed"
    /\ handle_result' = "Ok"
    /\ UNCHANGED <<client_stream, pos, pc, result, reader_buffer, locals, n_read,
                   written, net, client_conn, client_halves, relay, others, runtime>>

(* Another session's handle_connection returns, Ok or with an error. *)
OtherSessionEnd ==
    /\ runtime = "running"
    /\ \E i \in 1..Len(others) : \E r \in {"Ok", "Err"} :
         /\ others[i] = "running"
         /\ others' = [others EXCEPT ![i] = r]
    /\ UNCHANGED <<client_stream, pos, pc, result, reader_buffer, locals, n_read,
                   written, net, client_conn, client_halves, relay,
                   listener, handle_result, runtime>>

Cancel(t) == IF t = "running" THEN "cancelled" ELSE t

(* examples/tcp.rs: once server.handle() has returned, main returns and   *)
(* the runtime of #[tokio::main] is dropped; its shutdown drops every     *)
(* task that has not finished, and with the task what the task owns.      *)
MainReturn ==
    /\ handle_result # "pending"
    /\ runtime = "running"
    /\ runtime' = "shutdown"
    /\ others' = [i \in 1..Len(others) |-> Cancel(others[i])]
    /\ pc' = IF pc = "done" THEN pc ELSE "cancelled"
    /\ task_upstream' = Cancel(task_upstream)
    /\ task_downstream' = Cancel(task_downstream)
    /\ client_conn' = "closed"
    /\ client_rd' = "dropped"
    /\ client_wr' = "shutdown"
    /\ outbound' = IF outbound = "open" THEN "closed" ELSE outbound
    /\ remote_rd' = IF remote_rd = "open" THEN "dropped" ELSE remote_rd
    /\ remote_wr' = IF remote_wr = "open" THEN "shutdown" ELSE remote_wr
    /\ udp_socket' = IF udp_socket = "bound" THEN "closed" ELSE udp_socket
    /\ UNCHANGED <<parse_state, written, connect_arg, result, up_fwd, down_cnt,
                   listener, handle_result>>

(* One client stream for each arm of the request: a CONNECT to an IPv4   *)
(* address with one byte to relay, an ASSOCIATE with a domain name, and  *)
(* a command 2 with an IPv6 address.                                     *)
ServerStreams ==
    { <<VERSION, 1, 0, VERSION, CMD_CONNECT, 0, ATYP_IPV4, 127, 0, 0, 1, 0, 80, 7>>,
      <<VERSION, 1, 0, VERSION, CMD_ASSOCIATE, 0, ATYP_DOMAIN_NAME, 1, 97, 0, 80>>,
      <<VERSION, 1, 0, VERSION, 2, 0, ATYP_IPV6,
        32, 1, 13, 184, 0, 0, 0, 0, 0, 0, 0, 0, 0, 0, 0, 1, 0, 80>> }

ServerInit ==
    /\ client_stream \in ServerStreams
    /\ Fresh
    /\ Listening

ServerNext ==
    \/ Next
    \/ Accept
    \/ AcceptError
    \/ OtherSessionEnd
    \/ MainReturn

ServerSpec == ServerInit /\ [][ServerNext]_vars

(* ---- C16 --------------------------------------------------------- *)
session_state == <<client_stream, pos, pc, result, reader_buffer, locals, n_read,
                   written, net, client_conn, client_halves, relay>>

Failed(r) == r \notin {"pending", "Ok"}

(* C16: the step in which a session returns an error changes neither   *)
(* the listener, nor what handle returned, nor any other session; the  *)
(* step in which another session fails changes nothing of this session *)
(* or of the listener and only that one session; and as long as handle *)
(* has not returned the listener is accepting.                         *)
C16_SessionIsolation ==
    /\ [](handle_result = "pending" => listener = "accepting")
    /\ [][(result' # result /\ Failed(result')) => UNCHANGED server]_vars
    /\ [][(\E i \in 1..Len(others) : others[i] = "running" /\ others'[i] = "Err") =>
            /\ UNCHANGED session_state
            /\ UNCHANGED <<listener, handle_result, runtime>>
            /\ Len(others') = Len(others)
            /\ \E i \in 1..Len(others) :
                 \A j \in 1..Len(others) : j # i => others'[j] = others[j]]_vars

(* A session has failed, another one is still running and the listener *)
(* is still accepting.                                                 *)
C16_Witness ==
    /\ pc = "done"
    /\ Failed(result)
    /\ listener = "accepting"
    /\ handle_result = "pending"
    /\ \E i \in 1..Len(others) : others[i] = "running"
    /\ \E i \in 1..Len(others) : others[i] = "Err"

(* ---- C20 --------------------------------------------------------- *)
NoSessionCancelled ==
    /\ pc # "cancelled"
    /\ task_upstream # "cancelled" /\ task_downstream # "cancelled"
    /\ \A i \in 1..Len(others) : others[i] # "cancelled"

HandleReturnsOk ==
    /\ handle_result \in {"pending", "Ok"}
    /\ listener = "closed" <=> handle_result = "Ok"

(* C20: when accept fails handle leaves the loop and returns Ok(()),    *)
(* never an error, no connection is accepted afterwards, and the        *)
(* sessions spawned before are not cancelled.                           *)
C20_AcceptErrorEndsListener ==
    /\ [](HandleReturnsOk)
    /\ [][listener = "closed" => Len(others') = Len(others)]_vars
    /\ [](NoSessionCancelled)

(* C20 as it holds: handle returns Ok(()) and accepts nothing more; the *)
(* step in which it returns changes no session, and the sessions run on *)
(* as long as the runtime does: a session is cancelled only by the      *)
(* runtime's shutdown after main has returned.                          *)
C20_AcceptErrorEndsListenerAmended ==
    /\ [](HandleReturnsOk)
    /\ [][listener = "closed" => Len(others') = Len(others)]_vars
    /\ [][listener' # listener =>
            (UNCHANGED session_state /\ others' = others /\ runtime' = runtime)]_vars
    /\ [](runtime = "running" => NoSessionCancelled)
    /\ [](runtime = "shutdown" => handle_result = "Ok")

(* handle has returned Ok while a relay and another session go on. *)
C20_Witness ==
    /\ listener = "closed"
    /\ handle_result = "Ok"
    /\ runtime = "running"
    /\ task_upstream = "running"
    /\ task_downstream = "running"
    /\ \E i \in 1..Len(others) : others[i] = "running"

====
